---- MODULE Spec2Model ----
(***************************************************************************)
(* A model of src/code/docs.py: the docstring extraction functions         *)
(* (extract_params, extract_functions, extract_module), the page renderer  *)
(* (build_page, functions_html) and the DocsBuilder class (extract, build).*)
(*                                                                         *)
(* A Python str is a sequence of one-character strings.  A Python dict is  *)
(* a sequence of <<key, value>> pairs in insertion order.  Regular         *)
(* expressions are operators that compute the span re.search would return.*)
(***************************************************************************)
EXTENDS Integers, Sequences, FiniteSets, TLC

(***************************************************************************)
(* Characters and Python's str operations                                  *)
(***************************************************************************)

LowerLetters ==
    <<"a","b","c","d","e","f","g","h","i","j","k","l","m",
      "n","o","p","q","r","s","t","u","v","w","x","y","z">>

UpperLetters ==
    <<"A","B","C","D","E","F","G","H","I","J","K","L","M",
      "N","O","P","Q","R","S","T","U","V","W","X","Y","Z">>

\* the regular expression class \w (and [\w\d_], which is the same class)
WordChar ==
    { LowerLetters[i] : i \in DOMAIN LowerLetters }
        \cup { UpperLetters[i] : i \in DOMAIN UpperLetters }
        \cup {"0","1","2","3","4","5","6","7","8","9","_"}

\* the regular expression class \s, which str.strip() removes as well
SpaceChar == {" ", "\n", "\t", "\r", "\f"}

\* The one element of a singleton.  The({ F(x) : x \in { e } }) is F(e), the
\* value of e computed once and named x, as after the assignment x = e.
The(S) == CHOOSE x \in S : TRUE

\* the least element of a set of indices, d if the set is empty
First(indices, d) ==
    The({ (IF S = {} THEN d ELSE CHOOSE i \in S : \A j \in S : i <= j) :
            S \in { indices } })

\* the greatest element of a set of indices, d if the set is empty
Last(indices, d) ==
    The({ (IF S = {} THEN d ELSE CHOOSE i \in S : \A j \in S : j <= i) :
            S \in { indices } })

\* str.lower() on one character
LowerChar(c) ==
    IF c \in { UpperLetters[i] : i \in DOMAIN UpperLetters }
    THEN LowerLetters[CHOOSE i \in DOMAIN UpperLetters : UpperLetters[i] = c]
    ELSE c

\* str.lower()
Lower(s) == The({ [i \in DOMAIN t |-> LowerChar(t[i])] : t \in { s } })

\* t[i:] starts with lit (i is a 1-based index)
StartsAt(t, i, lit) ==
    /\ i >= 1
    /\ i + Len(lit) - 1 <= Len(t)
    /\ \A k \in 1..Len(lit) : t[i + k - 1] = lit[k]

\* index of the first occurrence of lit in t at or after from, 0 if none
Find(t, lit, from) ==
    First({ i \in from..(Len(t) - Len(lit) + 1) : StartsAt(t, i, lit) }, 0)

\* lit in t
Contains(t, lit) == Find(t, lit, 1) # 0

\* first index at or after i whose character is not in S (Len(t)+1 if none):
\* where a greedy run S+ that starts at i ends
RunEnd(t, i, S) == First({ k \in i..Len(t) : t[k] \notin S }, Len(t) + 1)

\* t[a-1:b-1], empty when the bounds cross
Slice(t, a, b) == IF a >= b THEN << >> ELSE SubSeq(t, a, b - 1)

RECURSIVE SplitFrom(_, _, _)
\* the parts of t[from-1:], the first separator found at i (0: none)
SplitAt(t, sep, from, i) ==
    IF i = 0 THEN << Slice(t, from, Len(t) + 1) >>
    ELSE << Slice(t, from, i) >> \o SplitFrom(t, sep, i + Len(sep))

SplitFrom(t, sep, from) ==
    The({ SplitAt(t, sep, from, i) : i \in { Find(t, sep, from) } })

\* str.split(sep)
Split(s, sep) == The({ SplitFrom(t, sep, 1) : t \in { s } })

RECURSIVE Join(_, _)
\* sep.join(parts)
Join(parts, sep) ==
    The({ (IF Len(p) = 0 THEN << >>
           ELSE IF Len(p) = 1 THEN p[1]
           ELSE p[1] \o sep \o Join(Tail(p), sep)) : p \in { parts } })

RECURSIVE ReplaceFrom(_, _, _, _)
\* t[from-1:] with old replaced, the first occurrence found at i (0: none)
ReplaceAt(t, old, new, from, i) ==
    IF i = 0 THEN Slice(t, from, Len(t) + 1)
    ELSE Slice(t, from, i) \o new \o ReplaceFrom(t, old, new, i + Len(old))

ReplaceFrom(t, old, new, from) ==
    The({ ReplaceAt(t, old, new, from, i) : i \in { Find(t, old, from) } })

\* str.replace(old, new): every non-overlapping occurrence, left to right
Replace(s, old, new) ==
    The({ (IF Len(o) = 0 THEN t ELSE ReplaceFrom(t, o, new, 1)) :
            t \in { s }, o \in { old } })

RECURSIVE CollapseFrom(_, _)
CollapseFrom(t, from) ==
    IF from > Len(t) THEN << >>
    ELSE IF t[from] \in SpaceChar
         THEN << " " >>
                  \o The({ CollapseFrom(t, k) : k \in { RunEnd(t, from, SpaceChar) } })
         ELSE << t[from] >> \o The({ CollapseFrom(t, k) : k \in { from + 1 } })

\* re.sub(r"\s+", " ", s)
CollapseSpace(s) == The({ CollapseFrom(t, 1) : t \in { s } })

\* str.strip()
Strip(s) ==
    The({ Slice(t, RunEnd(t, 1, SpaceChar),
                Last({ k \in 1..Len(t) : t[k] \notin SpaceChar }, 0) + 1) :
            t \in { s } })

(***************************************************************************)
(* Python dict: insertion-ordered, an assignment to an existing key keeps  *)
(* the key's position                                                      *)
(***************************************************************************)

Keys(d) == [i \in DOMAIN d |-> d[i][1]]

\* dict[key] = value
Put(dict, key, value) ==
    The({ (IF \E i \in DOMAIN d : d[i][1] = k
           THEN [i \in DOMAIN d |-> IF d[i][1] = k THEN << k, v >> ELSE d[i]]
           ELSE Append(d, << k, v >>)) :
            d \in { dict }, k \in { key }, v \in { value } })

(***************************************************************************)
(* Regular expression matches: a span [s, e) of 1-based indices, or NoMatch*)
(***************************************************************************)

NoMatch == [s |-> 0, e |-> 0]

\* the match that starts at s and ends before e; NoMatch when there is no
\* start (s = 0)
Match(s, e) == IF s = 0 THEN NoMatch ELSE [s |-> s, e |-> e]

\* the first pattern's match, and the second's when the first finds nothing
OrElse(m, m2) == IF m # NoMatch THEN m ELSE m2

\* match.group()
Group(t, m) == Slice(t, m.s, m.e)

(***************************************************************************)
(* extract_params                                                          *)
(***************************************************************************)

\* "\w+ : " matches at i: the greedy run of word characters from i is
\* followed by " : "
ParamHead(t, i) ==
    /\ i <= Len(t)
    /\ t[i] \in WordChar
    /\ StartsAt(t, RunEnd(t, i, WordChar), << " ", ":", " " >>)

\* the lookahead (?=\w+ :) succeeds at k
NameAhead(t, k) ==
    /\ k <= Len(t)
    /\ t[k] \in WordChar
    /\ StartsAt(t, RunEnd(t, k, WordChar), << " ", ":" >>)

\* where the lazy .*? of param_re can stop, for a match that starts at i
ParamStops(t, i) ==
    { k \in (RunEnd(t, i, WordChar) + 3)..Len(t) : NameAhead(t, k) }

\* param_re matched from i (0: no start): the lazy .*? stops at the first
\* place where the lookahead succeeds
ParamMatch(t, i) == Match(i, IF i = 0 THEN 0 ELSE First(ParamStops(t, i), 0))

\* param_re.search(text), param_re = (?s)\w+ : .*?(?=\w+ :)
param_re(t) ==
    The({ ParamMatch(t, i) :
            i \in { First({ k \in 1..Len(t) :
                               ParamHead(t, k) /\ ParamStops(t, k) # {} }, 0) } })

\* param_re2.search(text), param_re2 = (?s)\w+ : .*
param_re2(t) ==
    The({ Match(i, Len(t) + 1) :
            i \in { First({ k \in 1..Len(t) : ParamHead(t, k) }, 0) } })

\* the match of one loop iteration: param_re, and param_re2 when it finds
\* nothing
ParamSearch(t) == The({ OrElse(m, param_re2(t)) : m \in { param_re(t) } })

Optional == << "o", "p", "t", "i", "o", "n", "a", "l" >>

\* text = text.replace("\n".join(new_param), "")
ParamsRemaining(text, new_param) == Replace(text, Join(new_param, << "\n" >>), << >>)

\* the value stored for a parameter with the type text dtype, optional or not
ParamValue(dtype, optional, desc) ==
    [dtype |-> Strip(IF optional THEN Split(dtype, << "," >>)[1] ELSE dtype),
     description |-> Strip(CollapseSpace(desc)),
     optional |-> optional]

\* name, dtype = new_param[0].split(":") and the rest of the loop body
ParamsIterHead(text, params, new_param, head) ==
    IF Len(head) # 2
    THEN [pc |-> "ValueError", text |-> text, params |-> params]
    ELSE [pc |-> "loop",
          text |-> ParamsRemaining(text, new_param),
          params |-> Put(params, Strip(head[1]),
                         ParamValue(head[2], Contains(head[2], Optional),
                                    Join(Tail(new_param), << "\n" >>)))]

\* the loop body once new_param is the list of lines of the match
ParamsIterLines(text, params, new_param) ==
    The({ ParamsIterHead(text, params, new_param, head) :
            head \in { Split(new_param[1], << ":" >>) } })

\* new_param = new_param.group().split('\n') and the rest of the loop body
ParamsIterMatch(text, params, m) ==
    IF m = NoMatch
    THEN [pc |-> "return", text |-> text, params |-> params]
    ELSE The({ ParamsIterLines(text, params, new_param) :
                 new_param \in { Split(Group(text, m), << "\n" >>) } })

\* One iteration of the while loop of extract_params on the working text and
\* the dictionary built so far.  pc is "loop" (the loop goes on), "return"
\* (break) or "ValueError" (the unpacking of split(":") raises).
extract_params_iter(text, params) ==
    The({ ParamsIterMatch(text, params, m) : m \in { ParamSearch(text) } })

RECURSIVE ParamsLoop(_, _)
ParamsLoopOn(r) == IF r.pc = "loop" THEN ParamsLoop(r.text, r.params) ELSE r

ParamsLoop(text, params) ==
    The({ ParamsLoopOn(r) : r \in { extract_params_iter(text, params) } })

\* extract_params(text): [pc |-> "return", params |-> the dictionary], or
\* [pc |-> "ValueError"]
extract_params(text) == The({ ParamsLoop(t, << >>) : t \in { text } })

(***************************************************************************)
(* extract_functions                                                       *)
(***************************************************************************)

Quotes == << "\"", "\"", "\"" >>

DefKw == << "d", "e", "f", " " >>

ParametersHeading == << "P", "a", "r", "a", "m", "e", "t", "e", "r", "s", "\n" >>

ReturnsHeading == << "R", "e", "t", "u", "r", "n", "s", "\n" >>

\* "def [\w\d_]+\(" matches at i
DefHead(t, i) ==
    /\ StartsAt(t, i, DefKw)
    /\ i + 4 <= Len(t)
    /\ t[i + 4] \in WordChar
    /\ StartsAt(t, RunEnd(t, i + 4, WordChar), << "(" >>)

\* the index after the run \s+ when "\):\s+" matches at k, else 0
AfterColonSpace(t, k) ==
    IF StartsAt(t, k, << ")", ":" >>) /\ k + 2 <= Len(t) /\ t[k + 2] \in SpaceChar
    THEN RunEnd(t, k + 2, SpaceChar)
    ELSE 0

\* where the closing quotes of the docstring that opens at q are, else 0 (0
\* as well when no docstring opens at q)
DocClose(t, q) == IF StartsAt(t, q, Quotes) THEN Find(t, Quotes, q + 3) ELSE 0

\* where the match ends when "\):\s+\"{3}.*?\"{3}" matches at k, else 0
DocEndAfter(t, k) ==
    The({ (IF c = 0 THEN 0 ELSE c + 3) :
            c \in { The({ DocClose(t, q) : q \in { AfterColonSpace(t, k) } }) } })

\* where the lazy .*? after the opening parenthesis can stop, for a match
\* that starts at i
FuncStops(t, i) ==
    { k \in (RunEnd(t, i + 4, WordChar) + 1)..Len(t) : DocEndAfter(t, k) # 0 }

\* func_re matched from i (0: no start)
FuncMatch(t, i) ==
    Match(i, IF i = 0 THEN 0
             ELSE The({ DocEndAfter(t, k) : k \in { First(FuncStops(t, i), 0) } }))

\* func_re.search(code, from), func_re =
\* (?s)def [\w\d_]+\(.*?\):\s+\"{3}.*?\"{3}
func_re(t, from) ==
    The({ FuncMatch(t, i) :
            i \in { First({ k \in from..Len(t) :
                               DefHead(t, k) /\ FuncStops(t, k) # {} }, 0) } })

RECURSIVE FindAllFrom(_, _)
FindAllAt(t, m) ==
    IF m = NoMatch THEN << >> ELSE << Group(t, m) >> \o FindAllFrom(t, m.e)

FindAllFrom(t, from) == The({ FindAllAt(t, m) : m \in { func_re(t, from) } })

\* func_re.findall(code)
func_list(code) == FindAllFrom(code, 1)

\* re.search(r"def [\w\d_]+\(", func).group(), found at i, with "def " and
\* "(" replaced by "" and stripped
FuncNameAt(func, i) ==
    Strip(Replace(Replace(Slice(func, i, RunEnd(func, i + 4, WordChar) + 1),
                          DefKw, << >>),
                  << "(" >>, << >>))

FuncName(func) ==
    The({ FuncNameAt(func, i) :
            i \in { First({ k \in 1..Len(func) : DefHead(func, k) }, 0) } })

\* re.search(r"(?s)\"{3}.*\"", func).group(), the first triple quote found at
\* a: up to the last quote character
FuncDocAt(func, a) ==
    Slice(func, a, Last({ k \in (a + 3)..Len(func) : func[k] = "\"" }, 0) + 1)

FuncDoc(func) == The({ FuncDocAt(func, a) : a \in { Find(func, Quotes, 1) } })

\* the entry of funcs for the function called name, params being what
\* extract_params gave
FuncEntry(name, desc, params) ==
    IF params.pc # "return" THEN [pc |-> params.pc]
    ELSE [pc |-> "return",
          name |-> name,
          value |-> [description |-> Strip(CollapseSpace(Replace(desc, Quotes, << >>))),
                     parameters |-> params.params]]

\* desc, params = desc.split("Parameters\n") and the rest of the loop body
FuncParts(func, parts) ==
    IF Len(parts) # 2 THEN [pc |-> "ValueError"]
    ELSE The({ FuncEntry(FuncName(func), parts[1], params) :
                 params \in { extract_params(Split(parts[2], ReturnsHeading)[1]) } })

\* The body of the for loop of extract_functions for one match: the entry
\* added to funcs, or the exception raised.
extract_functions_entry(func) ==
    The({ FuncParts(func, parts) : parts \in { Split(FuncDoc(func), ParametersHeading) } })

RECURSIVE FuncsLoop(_, _)
FuncsLoopOn(list, funcs, r) ==
    IF r.pc # "return" THEN [pc |-> r.pc, funcs |-> funcs]
    ELSE The({ FuncsLoop(rest, f) :
                 rest \in { Tail(list) }, f \in { Put(funcs, r.name, r.value) } })

FuncsLoop(list, funcs) ==
    IF Len(list) = 0 THEN [pc |-> "return", funcs |-> funcs]
    ELSE The({ FuncsLoopOn(list, funcs, r) :
                 r \in { extract_functions_entry(Head(list)) } })

\* extract_functions(code): [pc |-> "return", funcs |-> the dictionary], or
\* [pc |-> the exception raised]
extract_functions(code) ==
    The({ FuncsLoop(list, << >>) : list \in { func_list(code) } })

(***************************************************************************)
(* extract_module                                                          *)
(***************************************************************************)

DevelopersLine ==
    << "D", "e", "v", "e", "l", "o", "p", "e", "r", "s", ":", "\n" >>

DescriptionLine ==
    << "D", "e", "s", "c", "r", "i", "p", "t", "i", "o", "n", ":", "\n" >>

\* ^ under re.MULTILINE matches before index i
LineStart(t, i) == i = 1 \/ (i - 1 <= Len(t) /\ t[i - 1] = "\n")

\* the triple quotes that start a line
QuotesAtLineStart(t) ==
    { i \in 1..Len(t) : LineStart(t, i) /\ StartsAt(t, i, Quotes) }

\* the match from the first to the last of the triple quotes q
BlockBetween(q) ==
    IF Cardinality(q) < 2 THEN NoMatch ELSE [s |-> First(q, 0), e |-> Last(q, 0) + 3]

\* re.search(r"(?sm)^\"{3}.*^\"{3}", code): from the first triple quote that
\* starts a line to the last one (the .* is greedy)
ModuleBlock(code) == The({ BlockBetween(q) : q \in { QuotesAtLineStart(code) } })

\* where a .* without re.DOTALL that starts at i ends: at the next newline
LineEnd(t, i) == First({ k \in i..Len(t) : t[k] = "\n" }, Len(t) + 1)

\* DevelopersAt had the pattern been compiled with re.DOTALL: the .* runs to
\* the end of the block
DevelopersAtDotAll(text, i) == Match(i, IF i = 0 THEN 0 ELSE Len(text) + 1)

\* re.search(r"Developers:\n.*", text), the marker found at i (0: not found):
\* without re.DOTALL the .* ends at the end of the line after the marker
DevelopersAt(text, i) ==
    Match(i, IF i = 0 THEN 0 ELSE LineEnd(text, i + Len(DevelopersLine)))

DevelopersMatch(text) ==
    The({ DevelopersAt(text, i) : i \in { Find(text, DevelopersLine, 1) } })

\* ModuleParts had the description been read as split(...)[-1]: a block
\* without "Description:" raises nothing
ModulePartsLastPart(text, dm, parts) ==
    IF dm = NoMatch THEN [pc |-> "AttributeError"]
    ELSE [pc |-> "return",
          name |-> Strip(Split(text, << "\n" >>)[2]),
          devs |-> Strip(Replace(Group(text, dm), DevelopersLine, << >>)),
          desc |-> Strip(Replace(parts[Len(parts)], Quotes, << >>))]

\* the three values extract_module returns, or the exception of the step
\* that fails
ModuleParts(text, dm, parts) ==
    IF dm = NoMatch THEN [pc |-> "AttributeError"]
    ELSE IF Len(parts) < 2 THEN [pc |-> "IndexError"]
    ELSE [pc |-> "return",
          name |-> Strip(Split(text, << "\n" >>)[2]),
          devs |-> Strip(Replace(Group(text, dm), DevelopersLine, << >>)),
          desc |-> Strip(Replace(parts[2], Quotes, << >>))]

\* the body of extract_module on the first block quote
ModuleText(text) ==
    The({ ModuleParts(text, dm, parts) :
            dm \in { DevelopersMatch(text) },
            parts \in { Split(text, DescriptionLine) } })

\* text = re.search(...).group(): the search m finds nothing, or the body of
\* extract_module runs on the block
ModuleAt(code, m) ==
    IF m = NoMatch THEN [pc |-> "AttributeError"]
    ELSE The({ ModuleText(text) : text \in { Group(code, m) } })

\* extract_module(code): [pc |-> "return", name, devs, desc], or
\* [pc |-> the exception raised]
extract_module(code) == The({ ModuleAt(code, m) : m \in { ModuleBlock(code) } })

(***************************************************************************)
(* functions_html and build_page.  A page is the record of what the        *)
(* template is filled with: the fixed markup is left out.                  *)
(***************************************************************************)

\* a breadcrumb item without a hyperlink
NoLink == << >>

HtmlExt == << ".", "h", "t", "m", "l" >>

ReadmeCrumb ==
    [label |-> << "R", "e", "a", "d", "m", "e" >>,
     href |-> << ".", ".", "/", "r", "e", "a", "d", "m", "e" >> \o HtmlExt,
     current |-> FALSE]

\* part.lower().replace(" ", "_")
FileName(part) == Replace(Lower(part), << " " >>, << "_" >>)

\* the rows of the parameters table of one function
ParamRows(parameters) ==
    [i \in DOMAIN parameters |->
        [param |-> parameters[i][1],
         emphasis |-> parameters[i][2].optional,
         description |-> parameters[i][2].description]]

\* functions_html(funcs): one list item per function
functions_html(funcs) ==
    [i \in DOMAIN funcs |->
        [name |-> funcs[i][1],
         signature |-> Keys(funcs[i][2].parameters),
         description |-> funcs[i][2].description,
         table |-> ParamRows(funcs[i][2].parameters)]]

\* Crumb without the test for the last layer: every layer is a hyperlink
CrumbLinked(fullpath, i) ==
    [label |-> fullpath[i],
     href |-> Join([k \in 1..i |-> FileName(fullpath[k])], << "." >>) \o HtmlExt,
     current |-> FALSE]

\* the breadcrumb item of layer i of fullpath: a hyperlink to the page of the
\* path that leads to it, unless it is the last layer
Crumb(fullpath, i) ==
    IF i # Len(fullpath)
    THEN [label |-> fullpath[i],
          href |-> Join([k \in 1..i |-> FileName(fullpath[k])], << "." >>) \o HtmlExt,
          current |-> FALSE]
    ELSE [label |-> fullpath[i], href |-> NoLink, current |-> TRUE]

\* the breadcrumb navigation: the Readme item, then one item per layer
Breadcrumb(fullpath) ==
    << ReadmeCrumb >> \o [i \in 1..Len(fullpath) |-> Crumb(fullpath, i)]

\* the class buttons and their contents
ClassIndex(module, classes) ==
    [i \in DOMAIN classes |->
        [name |-> classes[i][1],
         description |-> classes[i][2].description,
         href |-> FileName(module) \o << "." >> \o classes[i][1] \o HtmlExt]]

\* build_page(module, devs, desc, classes, funcs, submodule)
build_page(module, devs, desc, classes, funcs, submodule) ==
    LET fullpath == IF submodule # << >> THEN << module, submodule >>
                    ELSE << module >>
    IN  [title |-> fullpath[Len(fullpath)],
         lead |-> desc,
         breadcrumb |-> Breadcrumb(fullpath),
         classes |-> IF Len(classes) > 0 THEN ClassIndex(module, classes) ELSE << >>,
         functions |-> IF Len(funcs) > 0 THEN functions_html(funcs) ELSE << >>]

(***************************************************************************)
(* DocsBuilder.extract                                                     *)
(***************************************************************************)

ClassKw == << "c", "l", "a", "s", "s", " " >>

\* "class [\w\d_]+:" matches at i
ClassHead(t, i) ==
    /\ StartsAt(t, i, ClassKw)
    /\ i + 6 <= Len(t)
    /\ t[i + 6] \in WordChar
    /\ StartsAt(t, RunEnd(t, i + 6, WordChar), << ":" >>)

\* where "class [\w\d_]+:" that matches at i ends
ClassHeadEnd(t, i) == RunEnd(t, i + 6, WordChar) + 1

\* the characters (^.) can match after the header at i: any character that
\* starts a line
ClassLineStarts(t, i) ==
    { p \in ClassHeadEnd(t, i)..Len(t) : LineStart(t, p) }

\* class_re matched from i (0: no start): the greedy .* runs to the last
\* character that starts a line
ClassMatch(t, i) ==
    Match(i, IF i = 0 THEN 0 ELSE Last(ClassLineStarts(t, i), 0) + 1)

\* self.class_re.search(code), class_re = (?sm)class [\w\d_]+:.*(^.)
class_re(t) ==
    The({ ClassMatch(t, i) :
            i \in { First({ k \in 1..Len(t) :
                               ClassHead(t, k) /\ ClassLineStarts(t, k) # {} }, 0) } })

\* self.class_end_re.search(code), class_end_re = (?sm)class [\w\d_]+:.*
class_end_re(t) ==
    The({ Match(i, Len(t) + 1) :
            i \in { First({ k \in 1..Len(t) : ClassHead(t, k) }, 0) } })

\* the match of one loop iteration: class_re, and class_end_re when it finds
\* nothing
ClassSearch(t) == The({ OrElse(m, class_end_re(t)) : m \in { class_re(t) } })

\* CodeRemaining had the result of replace not been assigned back to code
CodeNotReassigned(code, body) == code

\* code = code.replace(new_class.group()[:-1], "")
CodeRemaining(code, body) == Replace(code, body, << >>)

\* the colons that "class .*:" can end with when it starts at i: those of
\* the same line
ClassColons(group, i) ==
    { k \in (i + 6)..(LineEnd(group, i + 6) - 1) : group[k] = ":" }

\* "class .*:" matched at i, with "class " and ":" replaced by "": the .* is
\* greedy up to the last colon of the line
ClassNameAt(group, i) ==
    Replace(Replace(Slice(group, i, Last(ClassColons(group, i), 0) + 1),
                    ClassKw, << >>),
            << ":" >>, << >>)

\* re.compile(r"class .*:").search(new_class.group()).group(), cleaned
ClassName(group) ==
    The({ ClassNameAt(group, i) :
            i \in { First({ k \in 1..Len(group) :
                               /\ StartsAt(group, k, ClassKw)
                               /\ ClassColons(group, k) # {} }, 0) } })

\* where the match ends when class [\w\d_]+:[\n\s]+\"{3}.*?\"{3} matches at
\* i, else 0
ClassDocEnd(t, i) ==
    IF /\ ClassHead(t, i)
       /\ ClassHeadEnd(t, i) <= Len(t)
       /\ t[ClassHeadEnd(t, i)] \in SpaceChar
       /\ DocClose(t, RunEnd(t, ClassHeadEnd(t, i), SpaceChar)) # 0
    THEN DocClose(t, RunEnd(t, ClassHeadEnd(t, i), SpaceChar)) + 3
    ELSE 0

\* the pattern of the class docstring matched from i (0: no start)
ClassDocAt(t, i) == Match(i, IF i = 0 THEN 0 ELSE ClassDocEnd(t, i))

\* re.compile(r"(?s)class [\w\d_]+:[\n\s]+\"{3}.*?\"{3}").search(group)
ClassDocMatch(t) ==
    The({ ClassDocAt(t, i) :
            i \in { First({ k \in 1..Len(t) : ClassDocEnd(t, k) # 0 }, 0) } })

RECURSIVE SubClassHeadFrom(_, _)
SubClassHeadAt(t, from, i) ==
    IF i = 0 THEN Slice(t, from, Len(t) + 1)
    ELSE Slice(t, from, i)
             \o The({ SubClassHeadFrom(t, e) : e \in { ClassHeadEnd(t, i) } })

\* re.sub(r"class [\w\d_]+:", "", t[from-1:])
SubClassHeadFrom(t, from) ==
    The({ SubClassHeadAt(t, from, i) :
            i \in { First({ k \in from..Len(t) : ClassHead(t, k) }, 0) } })

\* the class description given the match m of the docstring pattern: the
\* header and the triple quotes removed, whitespace collapsed; "" when there
\* is no match
ClassDescOf(group, m) ==
    IF m = NoMatch THEN << >>
    ELSE CollapseSpace(Replace(The({ SubClassHeadFrom(doc, 1) :
                                       doc \in { Group(group, m) } }),
                               Quotes, << >>))

ClassDesc(group) == The({ ClassDescOf(group, m) : m \in { ClassDocMatch(group) } })

\* the loop body after the class is removed from code: class_funcs is what
\* extract_functions gave for the class
ClassIterFuncs(code, classes, group, body, class_funcs) ==
    IF class_funcs.pc # "return"
    THEN [pc |-> class_funcs.pc, code |-> CodeRemaining(code, body), classes |-> classes]
    ELSE [pc |-> "loop",
          code |-> CodeRemaining(code, body),
          classes |-> Put(classes, ClassName(group),
                          [description |-> ClassDesc(group),
                           code |-> body,
                           funcs |-> class_funcs.funcs])]

\* the loop body for the match m; body is new_class.group()[:-1]
ClassIterMatch(code, classes, m, body) ==
    IF m = NoMatch
    THEN [pc |-> "break", code |-> code, classes |-> classes]
    ELSE The({ ClassIterFuncs(code, classes, group, body, class_funcs) :
                 group \in { Group(code, m) },
                 class_funcs \in { extract_functions(body) } })

\* the loop body once the search is done
ClassIterSearch(code, classes, m) ==
    The({ ClassIterMatch(code, classes, m, body) :
            body \in { Slice(code, m.s, m.e - 1) } })

\* One iteration of the while loop of DocsBuilder.extract on the working
\* code and self.classes.  pc is "loop" (the loop goes on), "break", or the
\* exception that extract_functions raises.
extract_class_iter(code, classes) ==
    The({ ClassIterSearch(code, classes, m) : m \in { ClassSearch(code) } })

RECURSIVE ClassesLoop(_, _)
ClassesLoopOn(r) == IF r.pc = "loop" THEN ClassesLoop(r.code, r.classes) ELSE r

ClassesLoop(code, classes) ==
    The({ ClassesLoopOn(r) : r \in { extract_class_iter(code, classes) } })

\* what extract leaves after the module block m was read and the class loop
\* ended as c, f being extract_functions on the code that is left
ExtractEnd(m, c, f) ==
    IF c.pc = "break" /\ f.pc = "return"
    THEN [pc |-> "return", set |-> {"module", "devs", "desc", "classes", "funcs"},
          module |-> m.name, devs |-> m.devs, desc |-> m.desc,
          classes |-> c.classes, funcs |-> f.funcs]
    ELSE [pc |-> IF c.pc # "break" THEN c.pc ELSE f.pc,
          set |-> {"module", "devs", "desc", "classes"},
          module |-> m.name, devs |-> m.devs, desc |-> m.desc,
          classes |-> c.classes]

ExtractClasses(m, c) ==
    The({ ExtractEnd(m, c, f) :
            f \in { IF c.pc = "break" THEN extract_functions(c.code) ELSE c } })

ExtractFrom(code, m) ==
    IF m.pc # "return" THEN [pc |-> m.pc, set |-> {}]
    ELSE The({ ExtractClasses(m, c) : c \in { ClassesLoop(code, << >>) } })

\* DocsBuilder.extract(code) run to its end on a builder whose attributes
\* are not set: the attributes it leaves, and the exception raised if any
extract(code) == The({ ExtractFrom(code, m) : m \in { extract_module(code) } })

(***************************************************************************)
(* DocsBuilder.build                                                       *)
(***************************************************************************)

\* ClassPage had build handed the module's classes to each class page
ClassPageOfModule(module, devs, classes, i) ==
    build_page(module, devs, classes[i][2].description, classes,
               classes[i][2].funcs, classes[i][1])

\* the page of class i of self.classes: build_page(self.module, self.devs,
\* self.classes[c]['description'], classes="", funcs=self.classes[c]['funcs'],
\* submodule=c)
ClassPage(module, devs, classes, i) ==
    build_page(module, devs, classes[i][2].description, << >>,
               classes[i][2].funcs, classes[i][1])

RECURSIVE ClassPages(_, _, _, _, _)
\* the for loop over self.classes: pages[f"{filename}.{c}"] = the class page
ClassPages(pages, module, devs, classes, i) ==
    IF i > Len(classes) THEN pages
    ELSE ClassPages(Put(pages,
                        FileName(module) \o << "." >> \o classes[i][1],
                        ClassPage(module, devs, classes, i)),
                    module, devs, classes, i + 1)

\* the dictionary pages of build, whose items are handed to output in order
build(module, devs, desc, classes, funcs) ==
    ClassPages(<< << FileName(module),
                     build_page(module, devs, desc, classes, funcs, << >>) >> >>,
               module, devs, classes, 1)

(***************************************************************************)
(* output, bootstrap_download and the asset check of DocsBuilder.__init__. *)
(* A directory is the set of the names of its files.                       *)
(***************************************************************************)

\* file_types, the accepted file extensions
file_types == << HtmlExt, << ".", "c", "s", "s" >>, << ".", "j", "s" >> >>

\* any([ext in filename for ext in file_types])
HasFileType(filename) == \E k \in DOMAIN file_types : Contains(filename, file_types[k])

\* the filename after the check of the extension: '.html' is appended when
\* none of file_types occurs in it
OutputName(filename) == IF HasFileType(filename) THEN filename ELSE filename \o HtmlExt

\* the file written for name in the directory dir: when a file of that name
\* exists the user is asked, and 'auto_' is prepended unless the answer
\* starts with "y" (overwrite)
OutputFile(dir, name, overwrite) ==
    IF name \in dir /\ ~ overwrite THEN << "a", "u", "t", "o", "_" >> \o name ELSE name

\* output(code, filename, path): the name of the file it writes in path,
\* whose files are dir
output(dir, filename, overwrite) ==
    The({ OutputFile(dir, name, overwrite) : name \in { OutputName(filename) } })

\* components of bootstrap_download, in the order of the dictionary
components ==
    << << "b", "o", "o", "t", "s", "t", "r", "a", "p", ".", "m", "i", "n", ".", "c", "s", "s" >>,
       << "b", "o", "o", "t", "s", "t", "r", "a", "p", ".", "b", "u", "n", "d", "l", "e", ".", "m", "i", "n", ".", "j", "s" >>,
       << "j", "q", "u", "e", "r", "y", ".", "m", "i", "n", ".", "j", "s" >> >>

RECURSIVE DownloadFrom(_, _, _)
\* the for loop of bootstrap_download from component i on: the files of the
\* templates directory afterwards
DownloadFrom(dir, i, overwrite) ==
    IF i > Len(components) THEN dir
    ELSE The({ DownloadFrom(d, i + 1, overwrite) :
                 d \in { dir \cup { output(dir, components[i], overwrite) } } })

\* bootstrap_download(docs_dir), every download succeeding
bootstrap_download(dir, overwrite) == DownloadFrom(dir, 1, overwrite)

\* bootstraps of __init__: the intended bootstrap files under templates
bootstraps ==
    { << "b", "o", "o", "t", "s", "t", "r", "a", "p", ".", "b", "u", "n", "d", "l", "e", ".", "m", "i", "n", ".", "j", "s" >>,
      << "b", "o", "o", "t", "s", "t", "r", "a", "p", ".", "m", "i", "n", ".", "c", "s", "s" >>,
      << "j", "q", "u", "e", "r", "y", ".", "m", "i", "n", ".", "j", "s" >> }

\* the asset check of __init__: bootstrap_download runs if
\* not any([os.path.exists(loc) for loc in bootstraps])
init_templates(dir, overwrite) ==
    IF ~ (\E loc \in bootstraps : loc \in dir)
    THEN bootstrap_download(dir, overwrite)
    ELSE dir

RECURSIVE OutputPages(_, _, _, _)
\* for page in pages: output(pages[page], page, path=path), from page i on:
\* the names of the files written so far are files, in order
OutputPages(pages, files, i, overwrite) ==
    IF i > Len(pages) THEN files
    ELSE The({ OutputPages(pages, f, i + 1, overwrite) :
                 f \in { Append(files,
                                output({ files[k] : k \in DOMAIN files },
                                       pages[i][1], overwrite)) } })

(***************************************************************************)
(* Source texts in the docstring dialect that the module itself is written *)
(* in                                                                      *)
(***************************************************************************)

NL == << "\n" >>

RECURSIVE Flatten(_)
\* the concatenation of a sequence of texts
Flatten(texts) ==
    IF Len(texts) = 0 THEN << >> ELSE Head(texts) \o Flatten(Tail(texts))

\* every line of lines, each ended by a newline
Lines(lines) == Flatten([i \in DOMAIN lines |-> lines[i] \o NL])

\* One entry of a Parameters section: "name : type" and the description
\* lines, indented one more step.
EntryText(indent, e) ==
    indent \o e.name \o << " ", ":", " " >> \o e.type \o NL
        \o Lines([i \in DOMAIN e.desc |-> indent \o << " " >> \o e.desc[i]])

\* a Parameters section: the entries one after the other
ParamsText(indent, decl) ==
    Flatten([i \in DOMAIN decl |-> EntryText(indent, decl[i])])

\* the one-line summary of the docstring of the construct called name
Summary(name) == << "D" >> \o name \o << "." >>

\* the only parameter of the function called name
ParamOf(name) ==
    [name |-> << "p" >> \o name, type |-> << "i", "n", "t" >>, desc |-> << >>]

\* A function definition.  kind "doc": a docstring with the Parameters and
\* Returns headings; "nopar": a docstring without headings; "undoc": no
\* docstring.
FuncText(indent, name, kind) ==
    LET in1 == indent \o << " " >>
        header(args) == indent \o DefKw \o name \o << "(" >> \o args \o << ")", ":" >> \o NL
    IN  CASE kind = "doc" ->
               header(ParamOf(name).name)
                   \o in1 \o Quotes \o Summary(name) \o NL
                   \o in1 \o ParametersHeading
                   \o ParamsText(in1, << ParamOf(name) >>)
                   \o in1 \o ReturnsHeading
                   \o in1 \o Quotes \o NL
          [] kind = "nopar" ->
               header(<< >>) \o in1 \o Quotes \o Summary(name) \o Quotes \o NL
          [] OTHER ->
               header(<< >>) \o in1 \o << "p", "a", "s", "s" >> \o NL

\* A class definition: the header line, the docstring if hasdoc, and its
\* methods, given as <<name, kind>> pairs.
ClassText(name, hasdoc, methods) ==
    ClassKw \o name \o << ":" >> \o NL
        \o (IF hasdoc THEN << " " >> \o Quotes \o Summary(name) \o Quotes \o NL
            ELSE << >>)
        \o Flatten([i \in DOMAIN methods |->
                       FuncText(<< " " >>, methods[i][1], methods[i][2])])

\* The module block.  form "full" has both markers; "nodevs" and "nodesc"
\* lack one; "noblock" lacks the block.
HeaderText(form, name, devs, desc) ==
    LET developers == DevelopersLine \o Lines(devs) \o NL
        description == DescriptionLine \o desc \o NL
    IN  CASE form = "full" ->
               Quotes \o NL \o name \o NL \o NL \o developers \o description
                   \o Quotes \o NL
          [] form = "nodevs" ->
               Quotes \o NL \o name \o NL \o NL \o description \o Quotes \o NL
          [] form = "nodesc" ->
               Quotes \o NL \o name \o NL \o NL \o developers \o Quotes \o NL
          [] OTHER -> << >>

(***************************************************************************)
(* Bounds and the inputs drawn within them                                 *)
(***************************************************************************)

\* entries in one Parameters section
MaxParams == 2

\* function definitions in one region handed to extract_functions
MaxFuncs == 2

\* developer lines under "Developers:"
MaxDevs == 2

\* calls of DocsBuilder.extract on one builder
MaxCalls == 2

SeqsUpTo(S, n) == UNION { [1..k -> S] : k \in 0..n }

ParamNames == { << "a" >>, << "b", "a" >> }

ParamTypes ==
    { << "i", "n", "t" >>,
      << "i", "n", "t", ",", " ", "o", "p", "t", "i", "o", "n", "a", "l" >>,
      << "d", ":", "c" >> }

ParamDescs == { << >>, << << "t", "o", " ", " ", "d", "o" >> >> }

ParamDecls ==
    SeqsUpTo([name : ParamNames, type : ParamTypes, desc : ParamDescs], MaxParams)

Digits == << "1", "2", "3", "4", "5", "6", "7", "8", "9" >>

\* the name of the i-th function of a region
RegionFuncName(i) == << "f", Digits[i] >>

FuncKinds == { "doc", "nopar", "undoc" }

FuncDecls == SeqsUpTo(FuncKinds, MaxFuncs)

\* the region that defines one function of each kind of decl, in order
RegionText(decl) ==
    Flatten([i \in DOMAIN decl |-> FuncText(<< >>, RegionFuncName(i), decl[i])])

DevNames == { << "J", " ", "B" >>, << "K" >> }

DevLists == SeqsUpTo(DevNames, MaxDevs)

ModuleName == << "M", " ", "x" >>

OtherModuleName == << "N" >>

ModuleDesc == << "D", "." >>

\* the module block of the sources handed to DocsBuilder.extract
Header(form, name) == HeaderText(form, name, << << "J" >> >>, ModuleDesc)

ClassA == ClassText(<< "A" >>, TRUE, << << << "g", "a" >>, "doc" >> >>)

ClassB == ClassText(<< "B" >>, FALSE, << << << "g", "b" >>, "doc" >> >>)

FuncF == FuncText(<< >>, << "f" >>, "doc")

\* a class with nothing after its header line, at the end of the text
ClassC == ClassText(<< "C" >>, FALSE, << >>)

\* a class whose method has a docstring without a Parameters heading
ClassE == ClassText(<< "E" >>, FALSE, << << << "g", "e" >>, "nopar" >> >>)

\* a class whose name starts with the letters of a file type
ClassJ == ClassText(<< "j", "s", "C" >>, FALSE, << >>)

\* a function whose docstring has no Parameters heading
FuncN == FuncText(<< >>, << "n" >>, "nopar")

Blocks == << ClassA, ClassB, FuncF >>

\* the top-level constructs of Blocks, each at most once, in any order
Arrangements ==
    { a \in SeqsUpTo(DOMAIN Blocks, Len(Blocks)) :
        \A i, j \in DOMAIN a : i # j => a[i] # a[j] }

Body(a) == Flatten([i \in DOMAIN a |-> Blocks[a[i]]])

\* sources in the dialect: the module block, then classes and functions
WellFormedSources == { Header("full", ModuleName) \o Body(a) : a \in Arrangements }

\* sources of a second module, among them the ones whose extraction raises
\* after the module block has been read
OtherSources ==
    { Header("full", OtherModuleName) \o b :
        b \in { << >>, ClassC, ClassA \o ClassC, ClassE, FuncN, ClassJ } }

\* sources that lack the module block or one of its markers
DefectiveSources ==
    { Header(form, ModuleName) \o FuncF : form \in { "nodevs", "nodesc", "noblock" } }

Sources == WellFormedSources \cup OtherSources \cup DefectiveSources

(***************************************************************************)
(* State                                                                   *)
(***************************************************************************)

VARIABLES
    pdecl,    \* extract_params: the entries its argument was written from
    ptext,    \* extract_params: text, the working text of the loop
    params,   \* extract_params: params, the dictionary built so far
    ppc,      \* extract_params: "loop", "return" or "ValueError" ("idle": no call)
    fdecl,    \* extract_functions: the functions its argument defines
    fres,     \* extract_functions: "call" before the call, then its outcome
    mdevs,    \* extract_module: the developer lines of its argument
    mres,     \* extract_module: "call" before the call, then its outcome
    arg,      \* DocsBuilder.extract: the argument of the call in progress
    code,     \* DocsBuilder.extract: code, the working text
    module,   \* self.module
    devs,     \* self.devs
    desc,     \* self.desc
    classes,  \* self.classes
    funcs,    \* self.funcs
    attrs,    \* the attributes among the five that have been assigned
    pc,       \* the builder: "none" (no builder), "idle", or the step of extract
    exc,      \* the exception the last call on the builder ended with, or "None"
    calls,    \* the number of extract calls so far
    pages,    \* build: the (page id, page) pairs handed to output, in order
    written,  \* build: the names of the files output wrote, in order
    templates,\* __init__: the files of <docs_dir>/templates
    ipc       \* __init__: "call" before the call, then "done" ("idle": no call)

vars ==
    << pdecl, ptext, params, ppc, fdecl, fres, mdevs, mres, arg, code, module,
       devs, desc, classes, funcs, attrs, pc, exc, calls, pages, written,
       templates, ipc >>

paramsVars == << pdecl, ptext, params, ppc >>

functionsVars == << fdecl, fres >>

moduleVars == << mdevs, mres >>

builderVars ==
    << arg, code, module, devs, desc, classes, funcs, attrs, pc, exc, calls, pages,
       written >>

initVars == << templates, ipc >>

Attributes == { "module", "devs", "desc", "classes", "funcs" }

NoParamsCall == pdecl = << >> /\ ptext = << >> /\ params = << >> /\ ppc = "idle"

NoFunctionsCall == fdecl = << >> /\ fres = [pc |-> "idle"]

NoModuleCall == mdevs = << >> /\ mres = [pc |-> "idle"]

NoInitCall == templates = {} /\ ipc = "idle"

NoBuilder ==
    /\ arg = << >> /\ code = << >>
    /\ module = << >> /\ devs = << >> /\ desc = << >>
    /\ classes = << >> /\ funcs = << >> /\ attrs = {}
    /\ pc = "none" /\ exc = "None" /\ calls = 0 /\ pages = << >>
    /\ written = << >>

\* a call of extract_params on a Parameters section
InitParams ==
    /\ pdecl \in ParamDecls
    /\ ptext = ParamsText(<< >>, pdecl)
    /\ params = << >>
    /\ ppc = "loop"
    /\ NoFunctionsCall /\ NoModuleCall /\ NoBuilder /\ NoInitCall

\* a call of extract_functions on a region
InitFunctions ==
    /\ fdecl \in FuncDecls
    /\ fres = [pc |-> "call"]
    /\ NoParamsCall /\ NoModuleCall /\ NoBuilder /\ NoInitCall

\* a call of extract_module on a module block
InitModule ==
    /\ mdevs \in DevLists
    /\ mres = [pc |-> "call"]
    /\ NoParamsCall /\ NoFunctionsCall /\ NoBuilder /\ NoInitCall

\* a DocsBuilder after __init__: none of the five attributes is assigned
InitBuilder ==
    /\ arg = << >> /\ code = << >>
    /\ module = << >> /\ devs = << >> /\ desc = << >>
    /\ classes = << >> /\ funcs = << >> /\ attrs = {}
    /\ pc = "idle" /\ exc = "None" /\ calls = 0 /\ pages = << >>
    /\ written = << >>
    /\ NoParamsCall /\ NoFunctionsCall /\ NoModuleCall /\ NoInitCall

\* a call of DocsBuilder.__init__ on a docs_dir whose templates directory
\* holds any of the bootstrap files, or none
InitInit ==
    /\ templates \in SUBSET bootstraps
    /\ ipc = "call"
    /\ NoParamsCall /\ NoFunctionsCall /\ NoModuleCall /\ NoBuilder

Init == InitParams \/ InitFunctions \/ InitModule \/ InitBuilder \/ InitInit

(***************************************************************************)
(* Actions                                                                 *)
(***************************************************************************)

\* one iteration of the while loop of extract_params ended as r
ParamsIterTo(r) == ptext' = r.text /\ params' = r.params /\ ppc' = r.pc

\* one iteration of the while loop of extract_params
ParamsIter ==
    /\ ppc = "loop"
    /\ \E r \in { extract_params_iter(ptext, params) } : ParamsIterTo(r)
    /\ UNCHANGED << pdecl, functionsVars, moduleVars, builderVars, initVars >>

\* extract_functions(code)
FunctionsCall ==
    /\ fres.pc = "call"
    /\ fres' = extract_functions(RegionText(fdecl))
    /\ UNCHANGED << fdecl, paramsVars, moduleVars, builderVars, initVars >>

\* extract_module(code)
ModuleCall ==
    /\ mres.pc = "call"
    /\ mres' = extract_module(HeaderText("full", ModuleName, mdevs, ModuleDesc))
    /\ UNCHANGED << mdevs, paramsVars, functionsVars, builderVars, initVars >>

\* DocsBuilder.extract(code) is called
ExtractCall ==
    /\ pc = "idle"
    /\ calls < MaxCalls
    /\ \E s \in Sources : arg' = s /\ code' = s
    /\ pc' = "module"
    /\ exc' = "None"
    /\ calls' = calls + 1
    /\ pages' = << >>
    /\ written' = << >>
    /\ UNCHANGED << module, devs, desc, classes, funcs, attrs >>
    /\ UNCHANGED << paramsVars, functionsVars, moduleVars, initVars >>

\* the call of extract ends with the exception e, or returns (e = "None")
ExtractEnds(e) == exc' = e /\ pc' = "idle" /\ arg' = << >> /\ code' = << >>

\* extract_module(code) ended as r
ExtractModuleTo(r) ==
    IF r.pc # "return"
    THEN /\ ExtractEnds(r.pc)
         /\ UNCHANGED << module, devs, desc, classes, attrs >>
    ELSE /\ module' = r.name /\ devs' = r.devs /\ desc' = r.desc
         /\ classes' = << >>
         /\ attrs' = attrs \cup { "module", "devs", "desc", "classes" }
         /\ pc' = "classes"
         /\ UNCHANGED << arg, code, exc >>

\* self.module, self.devs, self.desc = extract_module(code); self.classes = {}
ExtractModule ==
    /\ pc = "module"
    /\ \E r \in { extract_module(code) } : ExtractModuleTo(r)
    /\ UNCHANGED << funcs, calls, pages, written >>
    /\ UNCHANGED << paramsVars, functionsVars, moduleVars, initVars >>

\* one iteration of the while loop of extract ended as r
ExtractClassTo(r) ==
    CASE r.pc = "loop" ->
           /\ code' = r.code /\ classes' = r.classes
           /\ UNCHANGED << arg, pc, exc >>
      [] r.pc = "break" ->
           /\ pc' = "funcs"
           /\ UNCHANGED << arg, code, classes, exc >>
      [] OTHER ->
           /\ ExtractEnds(r.pc)
           /\ UNCHANGED classes

\* one iteration of the while loop of extract
ExtractClass ==
    /\ pc = "classes"
    /\ \E r \in { extract_class_iter(code, classes) } : ExtractClassTo(r)
    /\ UNCHANGED << module, devs, desc, funcs, attrs, calls, pages, written >>
    /\ UNCHANGED << paramsVars, functionsVars, moduleVars, initVars >>

\* extract_functions(code) ended as r
ExtractFunctionsTo(r) ==
    IF r.pc # "return"
    THEN ExtractEnds(r.pc) /\ UNCHANGED << funcs, attrs >>
    ELSE ExtractEnds("None") /\ funcs' = r.funcs /\ attrs' = attrs \cup { "funcs" }

\* self.funcs = extract_functions(code), and extract returns
ExtractFunctions ==
    /\ pc = "funcs"
    /\ \E r \in { extract_functions(code) } : ExtractFunctionsTo(r)
    /\ UNCHANGED << module, devs, desc, classes, calls, pages, written >>
    /\ UNCHANGED << paramsVars, functionsVars, moduleVars, initVars >>

\* DocsBuilder.build(path) on a path that holds no file: reading an attribute
\* that was never assigned raises AttributeError before any page is built;
\* else every page is handed to output, the user answering overwrite when asked
Build ==
    /\ pc = "idle"
    /\ IF attrs = Attributes
       THEN /\ pages' = build(module, devs, desc, classes, funcs)
            /\ \E overwrite \in BOOLEAN :
                 written' = OutputPages(pages', << >>, 1, overwrite)
            /\ exc' = "None"
       ELSE pages' = << >> /\ written' = << >> /\ exc' = "AttributeError"
    /\ UNCHANGED << arg, code, module, devs, desc, classes, funcs, attrs, pc, calls >>
    /\ UNCHANGED << paramsVars, functionsVars, moduleVars, initVars >>

\* DocsBuilder.__init__(docs_dir): the asset check, every download succeeding
Construct ==
    /\ ipc = "call"
    /\ \E overwrite \in BOOLEAN : templates' = init_templates(templates, overwrite)
    /\ ipc' = "done"
    /\ UNCHANGED << paramsVars, functionsVars, moduleVars, builderVars >>

Next ==
    \/ Construct
    \/ ParamsIter
    \/ FunctionsCall
    \/ ModuleCall
    \/ ExtractCall
    \/ ExtractModule
    \/ ExtractClass
    \/ ExtractFunctions
    \/ Build

Spec == Init /\ [][Next]_vars

\* A call in progress runs on: the loops are not preempted.
LoopSpec ==
    /\ Spec
    /\ WF_vars(ParamsIter)
    /\ WF_vars(ExtractModule)
    /\ WF_vars(ExtractClass)
    /\ WF_vars(ExtractFunctions)

(***************************************************************************)
(* Properties                                                              *)
(***************************************************************************)

\* the values d holds for key k (one, or none)
ValuesOf(d, k) == { d[i][2] : i \in { j \in DOMAIN d : d[j][1] = k } }

KeySet(d) == { d[i][1] : i \in DOMAIN d }

\* A Parameters section is well formed when its names are pairwise distinct
\* and no type text holds a colon (the description lines drawn hold none).
WellFormedDecl(decl) ==
    /\ \A i, j \in DOMAIN decl : i # j => decl[i].name # decl[j].name
    /\ \A i \in DOMAIN decl : ~ Contains(decl[i].type, << ":" >>)

\* what the entry e is documented to yield
DeclaredParam(e) ==
    [dtype |-> IF Contains(e.type, Optional)
               THEN Strip(Slice(e.type, 1, Find(e.type, << "," >>, 1)))
               ELSE e.type,
     description |-> Strip(CollapseSpace(Join(e.desc, << "\n" >>))),
     optional |-> Contains(e.type, Optional)]

\* C1: for a well-formed Parameters section of N entries, extract_params
\* returns exactly the N entries in declaration order, each with its own
\* description, optional exactly when the type text holds "optional", and
\* then with the type text before the first comma as dtype.
C1_ParamsAsDeclared ==
    (ppc \in { "return", "ValueError" } /\ WellFormedDecl(pdecl))
        => /\ ppc = "return"
           /\ params = [i \in DOMAIN pdecl |->
                           << pdecl[i].name, DeclaredParam(pdecl[i]) >>]

\* C2: when a docstring has no Parameters heading (and every function of the
\* region has a docstring), extract_functions raises nothing, records that
\* function with its description and no parameters, and records the others.
C2_NoParametersHeading ==
    (/\ fres.pc \notin { "idle", "call" }
     /\ \E i \in DOMAIN fdecl : fdecl[i] = "nopar"
     /\ \A i \in DOMAIN fdecl : fdecl[i] # "undoc")
        => /\ fres.pc = "return"
           /\ Keys(fres.funcs) = [i \in DOMAIN fdecl |-> RegionFuncName(i)]
           /\ \A i \in DOMAIN fdecl :
                fdecl[i] = "nopar" =>
                    ValuesOf(fres.funcs, RegionFuncName(i))
                        = { [description |-> Summary(RegionFuncName(i)),
                             parameters |-> << >>] }

\* what the documented function called name is to be recorded with
DeclaredFunc(name) ==
    [description |-> Summary(name),
     parameters |-> << << ParamOf(name).name,
                          [dtype |-> ParamOf(name).type,
                           description |-> << >>,
                           optional |-> FALSE] >> >>]

\* C3: the keys extract_functions returns are exactly the names of the
\* functions that have a docstring, each with the description and the
\* parameters of its own docstring; a function without one is no key.
C3_DocumentedFunctionsOnly ==
    fres.pc = "return"
        => /\ KeySet(fres.funcs)
                = { RegionFuncName(i) : i \in { j \in DOMAIN fdecl : fdecl[j] # "undoc" } }
           /\ \A i \in DOMAIN fdecl :
                fdecl[i] = "doc" =>
                    ValuesOf(fres.funcs, RegionFuncName(i))
                        = { DeclaredFunc(RegionFuncName(i)) }

\* the sources that hold classes A and B and the function f, in any order
SourcesABf ==
    { Header("full", ModuleName) \o Body(a) :
        a \in { b \in Arrangements : Len(b) = Len(Blocks) } }

\* the keys of the functions recorded for class c
ClassFuncKeys(cls, c) == { Keys(v.funcs) : v \in ValuesOf(cls, c) }

\* C4: extract on a source with classes A and B and function f yields the
\* class records A and B, each holding its own method only, and f alone as
\* the module-level function.
C4_ClassSpans ==
    [][(pc = "funcs" /\ arg \in SourcesABf)
          => /\ exc' = "None"
             /\ KeySet(classes') = { << "A" >>, << "B" >> }
             /\ ClassFuncKeys(classes', << "A" >>) = { << << "g", "a" >> >> }
             /\ ClassFuncKeys(classes', << "B" >>) = { << << "g", "b" >> >> }
             /\ Keys(funcs') = << << "f" >> >>]_vars

\* the source lacks the module block, or one of its two marker lines
LacksHeader(t) ==
    \/ QuotesAtLineStart(t) = {}
    \/ ~ Contains(t, DevelopersLine)
    \/ ~ Contains(t, DescriptionLine)

\* C5: extract on a source that lacks the module block or a marker ends in
\* an error and assigns none of module, devs, desc, classes, funcs.
C5_NoPartialModel ==
    [][(pc = "module" /\ LacksHeader(code))
          => /\ pc' = "idle"
             /\ exc' # "None"
             /\ UNCHANGED << module, devs, desc, classes, funcs, attrs >>]_vars

\* a second extract failed on its module block and the model of the first
\* one is still in place
C5_Witness ==
    /\ pc = "idle" /\ calls = 2
    /\ exc = "IndexError"
    /\ attrs = Attributes /\ module = ModuleName

\* the five attributes are what extract leaves for the source s
ModelIs(r) ==
    /\ r.pc = "return"
    /\ module = r.module /\ devs = r.devs /\ desc = r.desc
    /\ classes = r.classes /\ funcs = r.funcs

\* C6: the model a build renders comes from one single source.
C6_OneSourcePerModel ==
    (pc = "idle" /\ attrs = Attributes) => \E s \in Sources : ModelIs(extract(s))

\* the breadcrumb of page i of pages
BreadcrumbOf(i) == pages[i][2].breadcrumb

\* C7 as stated: a model without classes and functions renders to one page
\* whose breadcrumb has exactly one entry, the current page without a link.
C7_OneCrumb ==
    (pages # << >> /\ classes = << >> /\ funcs = << >>)
        => /\ Len(pages) = 1
           /\ Len(BreadcrumbOf(1)) = 1
           /\ BreadcrumbOf(1)[1].current
           /\ BreadcrumbOf(1)[1].href = NoLink

\* C7 as amended: one page, whose breadcrumb is the linked Readme entry and
\* then exactly one entry, the module as the current page without a link.
C7_ReadmeThenModule ==
    (pages # << >> /\ classes = << >> /\ funcs = << >>)
        => /\ Len(pages) = 1
           /\ Len(BreadcrumbOf(1)) = 2
           /\ BreadcrumbOf(1)[1].label = << "R", "e", "a", "d", "m", "e" >>
           /\ BreadcrumbOf(1)[1].href # NoLink
           /\ ~ BreadcrumbOf(1)[1].current
           /\ BreadcrumbOf(1)[2].label = module
           /\ BreadcrumbOf(1)[2].href = NoLink
           /\ BreadcrumbOf(1)[2].current

C7_Witness == pages # << >> /\ classes = << >> /\ funcs = << >>

\* the names a page lists its functions under
FunctionsListed(page) == [i \in DOMAIN page.functions |-> page.functions[i].name]

\* the names a page lists in its class index
ClassesListed(page) == [i \in DOMAIN page.classes |-> page.classes[i].name]

\* the module name lowercased, its spaces turned into underscores
ModuleId(name) ==
    [i \in DOMAIN name |->
        IF name[i] = " " THEN "_"
        ELSE IF name[i] = "M" THEN "m"
        ELSE IF name[i] = "N" THEN "n"
        ELSE name[i]]

\* C8: build emits the module page and then one page per class in the order
\* of the class map, with the ids <module-id> and <module-id>.<class>; the
\* module page lists every class and the module-level functions, a class
\* page lists the functions of its class and no class.
C8_PagesOfModel ==
    pages # << >>
        => /\ Len(pages) = 1 + Len(classes)
           /\ pages[1][1] = ModuleId(module)
           /\ ClassesListed(pages[1][2]) = Keys(classes)
           /\ FunctionsListed(pages[1][2]) = Keys(funcs)
           /\ \A i \in DOMAIN classes :
                /\ pages[i + 1][1] = ModuleId(module) \o << "." >> \o classes[i][1]
                /\ ClassesListed(pages[i + 1][2]) = << >>
                /\ FunctionsListed(pages[i + 1][2]) = Keys(classes[i][2].funcs)

\* two class pages were built, for classes that hold different functions
C8_Witness ==
    /\ Len(pages) = 3
    /\ FunctionsListed(pages[2][2]) # FunctionsListed(pages[3][2])

\* C9 as stated: the developer list is every line between "Developers:" and
\* the next blank line.
C9_AllDeveloperLines ==
    mres.pc \notin { "idle", "call" }
        => /\ mres.pc = "return"
           /\ mres.devs = Strip(Join(mdevs, << "\n" >>))

\* C9 as amended: the developer list is the one line that follows
\* "Developers:" (empty when a blank line follows), whatever comes after it.
C9_FirstDeveloperLine ==
    mres.pc \notin { "idle", "call" }
        => /\ mres.pc = "return"
           /\ mres.devs = IF mdevs = << >> THEN << >> ELSE Strip(mdevs[1])

C9_Witness == mres.pc = "return" /\ Len(mdevs) >= 2

\* C10: an iteration of the loop of extract_params, or of the class loop of
\* extract, that does not leave the loop leaves a strictly shorter working
\* text, and each loop is left.
C10_LoopsShrinkAndEnd ==
    /\ [][(ppc = "loop" /\ ppc' = "loop") => Len(ptext') < Len(ptext)]_vars
    /\ [][(pc = "classes" /\ pc' = "classes") => Len(code') < Len(code)]_vars
    /\ (ppc = "loop") ~> (ppc # "loop")
    /\ (pc = "classes") ~> (pc # "classes")

\* class C, whose match came from class_end_re, the pattern that runs to the
\* end of the text, was recorded and removed, and the next search ends the loop
C10_Witness ==
    /\ pc = "classes"
    /\ << "C" >> \in KeySet(classes)
    /\ ClassSearch(code) = NoMatch
    /\ Len(code) < Len(arg)

\* C11: after DocsBuilder.__init__ has returned, every download succeeding,
\* the three bootstrap files all exist under templates, whichever of them
\* existed before the call.
C11_AllAssetsPresent == ipc = "done" => bootstraps \subseteq templates

\* the names of the files build wrote
FilesWritten == { written[i] : i \in DOMAIN written }

\* C12: the file written for each page that build hands to output is called
\* <page id>.html, so the class links of the module page and the module link
\* in the breadcrumb of each class page name files that build wrote.
C12_LinksResolve ==
    pages # << >>
        => /\ written = [i \in DOMAIN pages |-> pages[i][1] \o HtmlExt]
           /\ \A k \in DOMAIN pages[1][2].classes :
                pages[1][2].classes[k].href \in FilesWritten
           /\ \A i \in 2..Len(pages) :
                pages[i][2].breadcrumb[2].href \in FilesWritten

====
